---- MODULE Spec2Model ----
(***************************************************************************)
(* MacPins clipboard history engine: the main-process History list, its    *)
(* JSON file, the image directory and the poll tick.                       *)
(*                                                                         *)
(* The repository holds two builds of the main process: the monolithic     *)
(* src/main/index.ts (variant "index") and the modular                     *)
(* clipboard/clipboardManager.ts + ipc/ipcManager.ts (variant "manager").  *)
(* Both are modelled; variant is fixed at start.                           *)
(***************************************************************************)
EXTENDS Integers, Sequences, FiniteSets, TLC

(* ---------------------------- bounds ----------------------------------- *)
\* inserting ticks explored under Spec, and under the text-only SpecText
MaxTicks == 2
ScenarioTicks == 3
\* inserting ticks explored under SpecFault, SpecPaste and SpecLegacy
FaultTicks == 1
PasteTicks == 2
LegacyTicks == 1
\* inserting ticks explored under SpecQuit
QuitTicks == 2
\* inserting ticks explored under SpecImages
ImageTicks == 2
\* inserting ticks explored under SpecRenderer
RendererTicks == 2

(* ------------------------ program constants ---------------------------- *)
Unlimited == 999999

(* ------------------------- value domains ------------------------------- *)
\* what the user copies under Spec
Texts == {"A", "B"}
\* what the user copies under SpecText
ScenarioTexts == {"A", "B", "C"}
NoText == ""
Images == {"X"}
\* what the user copies under SpecImages
TwoImages == {"X", "Y"}
NoImage == "none"
NoPath == "nopath"
\* clipboard-history.json before it was ever written
NoFile == [exists |-> FALSE, items |-> <<>>]
FileOf(items) == [exists |-> TRUE, items |-> items]
\* values of settings.maxHistoryItems the user may have configured
MaxChoices == {1, 2, Unlimited}

VARIABLES
  variant,               \* "index" | "manager"
  clipboardHistory,      \* in-memory History list
  lastClipboardContent,  \* last text seen by the watcher
  maxHistoryItems,       \* settings.maxHistoryItems as the watcher sees it
  historyFile,           \* clipboard-history.json: [exists, items]
  imagesDir,             \* file names in clipboard-images/
  osText, osImage,       \* the OS clipboard
  now,                   \* the value of the latest Date.now() call of a tick;
                         \* ticks are 2 apart, so that a later Date.now()
                         \* inside the same tick is the same instant or + 1
  horizon,               \* the last instant the model explores
  lastOp,                \* history variable: the operation that ran last
  preHistory,            \* history variable: clipboardHistory before it
  preDir,                \* history variable: imagesDir before it
  clipboardMonitoringInterval, \* the poll timer: "armed" | "cleared"
  effects,               \* what the operation that ran last did besides the
                         \* state change: the failure it met, the checks of
                         \* the tick that ran, the 'clipboard-updated'
                         \* payloads it sent, the result it returned
  tickFailed,            \* history variable: some tick met a failure
  isQuitting,            \* the isQuitting flag: shutdown has begun
  exited,                \* app.exit(0) was called: the process is gone
  storeClipboardHistory, \* clipboardHistory of the renderer store
  delivered              \* the renderer has handled what the operation that
                         \* ran last sent or returned to it

vars == <<variant, clipboardHistory, lastClipboardContent, maxHistoryItems,
          historyFile, imagesDir, osText, osImage, now, horizon, lastOp,
          preHistory, preDir, clipboardMonitoringInterval, effects, tickFailed,
          isQuitting, exited, storeClipboardHistory, delivered>>

(* ------------------------- JS value helpers ---------------------------- *)
\* item.pinned === true
StrictTrue(p) == p = "true"
\* Boolean(item.pinned), and the negation of !item.pinned. pinned is "true",
\* "false", "undefined" (the field is missing) or "truthy" (a value that is
\* not a boolean and that JS takes as true, such as 1 or "yes").
Truthy(p) == p \in {"true", "truthy"}
\* mutant: pinned is kept as it was read
KeepPinned(e) == e

\* item.pinned = item.pinned === true
CoercePinned(e) == [e EXCEPT !.pinned = IF StrictTrue(e.pinned) THEN "true" ELSE "false"]
CoerceAll(h) == [i \in 1..Len(h) |-> CoercePinned(h[i])]

\* crypto.createHash('md5').update(buffer).digest('hex')
Md5(bytes) == IF bytes = "X" THEN "h1" ELSE "h2"
\* `${hash}.png`
FileNameOf(hash) == hash \o ".png"

IsImage(e) == e.type = "image"
HasPath(e) == e.imagePath # NoPath

\* array.filter(pred) for the two predicates the code uses
PinnedItems(h) == SelectSeq(h, LAMBDA e : StrictTrue(e.pinned))
UnpinnedItems(h) == SelectSeq(h, LAMBDA e : ~StrictTrue(e.pinned))

\* Array.prototype.sort((a, b) => b.timestamp - a.timestamp): stable, descending
RECURSIVE InsertDesc(_, _)
InsertDesc(s, e) ==
  IF s = <<>> THEN <<e>>
  ELSE IF Head(s).timestamp >= e.timestamp
       THEN <<Head(s)>> \o InsertDesc(Tail(s), e)
       ELSE <<e>> \o s
RECURSIVE SortDesc(_)
SortDesc(s) ==
  IF s = <<>> THEN <<>>
  ELSE InsertDesc(SortDesc(SubSeq(s, 1, Len(s) - 1)), s[Len(s)])

\* splice(index, 1)
Splice(h, i) == SubSeq(h, 1, i - 1) \o SubSeq(h, i + 1, Len(h))
\* unshift(item)
Unshift(h, e) == <<e>> \o h

\* findIndex(item => item.id === id); 0 stands for -1
FindIndexById(h, id) ==
  IF \E i \in 1..Len(h) : h[i].id = id
  THEN CHOOSE i \in 1..Len(h) : h[i].id = id /\ \A j \in 1..(i - 1) : h[j].id # id
  ELSE 0

\* mutant: the unpinned entry nearest the head is removed
FirstUnpinnedIndex(h) ==
  IF \E i \in 1..Len(h) : ~Truthy(h[i].pinned)
  THEN CHOOSE i \in 1..Len(h) :
         ~Truthy(h[i].pinned) /\ \A j \in 1..(i - 1) : Truthy(h[j].pinned)
  ELSE 0

\* mutant: the tail entry is removed whatever its pinned flag
LastIndexWhateverPinned(h) == Len(h)

\* [...clipboardHistory].reverse().findIndex(item => !item.pinned), converted
\* back to an index of the original array; 0 stands for "not found"
LastUnpinnedIndex(h) ==
  IF \E i \in 1..Len(h) : ~Truthy(h[i].pinned)
  THEN CHOOSE i \in 1..Len(h) :
         ~Truthy(h[i].pinned) /\ \A j \in (i + 1)..Len(h) : Truthy(h[j].pinned)
  ELSE 0

(* --------------------------- entries ----------------------------------- *)
\* monitorTextClipboard's newItem (preview is display only and left out)
NewTextItem(text, t) ==
  [id |-> t, type |-> "text", content |-> text, timestamp |-> t,
   pinned |-> "false", imagePath |-> NoPath]

\* monitorImageClipboard's newItem
NewImageItem(hash, fileName, t) ==
  [id |-> t, type |-> "image", content |-> hash, timestamp |-> t,
   pinned |-> "false", imagePath |-> fileName]

(* --------------------------- eviction ---------------------------------- *)
\* clipboardHistory.some(item => item !== removedItem && item.type === 'image'
\*                        && item.imagePath === removedItem.imagePath)
OtherReferences(h, idx) ==
  \E j \in 1..Len(h) : j # idx /\ IsImage(h[j]) /\ h[j].imagePath = h[idx].imagePath

\* mutant: the file that is unlinked is the one of the entry at the index
\* found in the reversed copy, used without converting it back
limitUnlinkUnconverted(h, dir, max) ==
  IF max < Unlimited /\ Len(h) > max
  THEN LET idx == LastUnpinnedIndex(h)
           rev == Len(h) + 1 - idx
       IN
       IF idx # 0
       THEN [h |-> Splice(h, idx),
             dir |-> IF IsImage(h[rev]) /\ HasPath(h[rev]) /\ ~OtherReferences(h, rev)
                     THEN dir \ {h[rev].imagePath}
                     ELSE dir]
       ELSE [h |-> h, dir |-> dir]
  ELSE [h |-> h, dir |-> dir]

\* mutant: the limit is never enforced
limitHistoryItemsNever(h, dir, max) == [h |-> h, dir |-> dir]

\* limitHistoryItems(settings): at most one removal, with the image file of the
\* removed entry unlinked when no other entry references it
limitHistoryItems(h, dir, max) ==
  IF max < Unlimited /\ Len(h) > max
  THEN LET idx == LastUnpinnedIndex(h) IN
       IF idx # 0
       THEN [h |-> Splice(h, idx),
             dir |-> IF IsImage(h[idx]) /\ HasPath(h[idx]) /\ ~OtherReferences(h, idx)
                     THEN dir \ {h[idx].imagePath}
                     ELSE dir]
       ELSE [h |-> h, dir |-> dir]
  ELSE [h |-> h, dir |-> dir]

\* the text path of index.ts: the same removal, without any file handling
IndexLimitText(h, dir, max) ==
  IF max < Unlimited /\ Len(h) > max
  THEN LET idx == LastUnpinnedIndex(h) IN
       IF idx # 0 THEN [h |-> Splice(h, idx), dir |-> dir]
                  ELSE [h |-> h, dir |-> dir]
  ELSE [h |-> h, dir |-> dir]

\* the image path of index.ts: statement for statement limitHistoryItems
IndexLimitImage(h, dir, max) == limitHistoryItems(h, dir, max)

LimitAfterText(h, dir, max) ==
  IF variant = "manager" THEN limitHistoryItems(h, dir, max)
                         ELSE IndexLimitText(h, dir, max)

LimitAfterImage(h, dir, max) ==
  IF variant = "manager" THEN limitHistoryItems(h, dir, max)
                         ELSE IndexLimitImage(h, dir, max)

(* -------------------------- persistence -------------------------------- *)
\* saveClipboardHistory: coerce pinned in place, JSON.stringify, writeFileSync.
\* JSON keeps id, type, content, timestamp, pinned and imagePath of every item
\* and the array order, so the file is the coerced list.
saveClipboardHistory(h) == FileOf(CoerceAll(h))

\* mutant: a missing file empties the list
loadOrEmpty(h, file) ==
  IF ~file.exists THEN SubSeq(h, 1, 0)
  ELSE LET history == CoerceAll(file.items) IN
       SortDesc(PinnedItems(history)) \o SortDesc(UnpinnedItems(history))

\* loadClipboardHistory: the new in-memory list, given the file
loadClipboardHistory(h, file) ==
  IF ~file.exists THEN h
  ELSE LET history == CoerceAll(file.items) IN
       SortDesc(PinnedItems(history)) \o SortDesc(UnpinnedItems(history))

\* saveImageToFile: write <hash>.png unless it exists; returns the file name
saveImageToFile(dir, bytes) == dir \cup {FileNameOf(Md5(bytes))}

\* usedImages of cleanupUnusedImages for a list of items
UsedImages(items) ==
  {items[i].imagePath : i \in {j \in 1..Len(items) : IsImage(items[j]) /\ HasPath(items[j])}}

\* mutant: the used set is taken from the in-memory list even when it is
\* empty, without the fallback to the persisted file
cleanupFromMemoryOnly(h, file, dir) == dir \cap UsedImages(h)

\* cleanupUnusedImages: the image directory after the run
cleanupUnusedImages(h, file, dir) ==
  IF Len(h) = 0
  THEN IF file.exists THEN dir \cap UsedImages(file.items) ELSE dir
  ELSE dir \cap UsedImages(h)

(* ---------------------------- handlers --------------------------------- *)
\* ipcMain.handle('toggle-pinned'): the list after the flip and the re-sort
TogglePinnedList(h, id) ==
  LET index == FindIndexById(h, id) IN
  IF index = 0 THEN h
  ELSE LET flipped == [h EXCEPT ![index].pinned =
                         IF Truthy(h[index].pinned) THEN "false" ELSE "true"]
       IN SortDesc(PinnedItems(flipped)) \o SortDesc(UnpinnedItems(flipped))

\* mutant: clear-history empties the list, pinned entries included
ClearEverything(h) == SubSeq(h, 1, 0)

\* clearClipboardHistoryKeepPinned: the list it leaves
ClearKeepPinned(h) == PinnedItems(CoerceAll(h))

\* ipcMain.handle('delete-clipboard-item'): the list after the splice
DeleteItem(h, id) ==
  LET index == FindIndexById(h, id) IN
  IF index = 0 THEN h ELSE Splice(h, index)

(* ------------------------- failures ------------------------------------ *)
\* The condition an operation runs under. "none": every call succeeds.
\*   "readText"   clipboard.readText() throws
\*   "readImage"  clipboard.readImage() / toPNG() / createHash throws
\*   "writeImage" fs.writeFileSync of the png throws
\*   "send"       webContents.send throws (the window object is destroyed)
\*   "save"       fs.writeFileSync of clipboard-history.json throws
\*   "script"     osascript exits with an error
\*   "permission" osascript is denied the keystroke
NoFault == "none"
TickFaults == {"readText", "readImage", "writeImage", "send", "save"}
HandlerFaults == {"send", "save"}
PasteFaults == {"script", "permission"}

\* what an operation did besides changing the state
Effects(fault, checks, sent, result, keystroke) ==
  [fault |-> fault, checks |-> checks, sent |-> sent, result |-> result,
   keystroke |-> keystroke]
NoEffects == Effects(NoFault, {}, <<>>, "none", FALSE)

\* mutant: the history file is never written
WriteHistoryNever(h, file, f) == file

\* saveClipboardHistory when writeFileSync may throw: pinned is coerced in
\* place before the write, the catch logs the error, the file keeps its content
WriteHistory(h, file, f) == IF f = "save" THEN file ELSE saveClipboardHistory(h)

\* the tail of every mutating handler: webContents.send('clipboard-updated',
\* clipboardHistory), then saveClipboardHistory(). A throwing send leaves the
\* handler before the save.
NotifyAndSave(h, file, f) ==
  IF f = "send"
  THEN [h |-> h, file |-> file, sent |-> <<>>, thrown |-> TRUE]
  ELSE [h |-> CoerceAll(h), file |-> WriteHistory(h, file, f), sent |-> <<h>>,
        thrown |-> FALSE]

(* ------------------------- the poll tick ------------------------------- *)
\* a check that returns or throws before it changes anything
Skipped(st, thrown) ==
  [h |-> st.h, dir |-> st.dir, file |-> st.file, last |-> st.last,
   sent |-> st.sent, inserted |-> FALSE, thrown |-> thrown]

\* The text check of one tick. st = [h, dir, file, last, sent]; t is
\* Date.now(); f is the condition the tick runs under.
TextCheck(st, text, t, max, f) ==
  IF f = "readText" THEN Skipped(st, TRUE)
  ELSE IF text # NoText /\ text # st.last
  THEN LET lim == LimitAfterText(Unshift(st.h, NewTextItem(text, t)), st.dir, max)
           out == NotifyAndSave(lim.h, st.file, f)
       IN [h |-> out.h, dir |-> lim.dir, file |-> out.file, last |-> text,
           sent |-> st.sent \o out.sent, inserted |-> TRUE, thrown |-> out.thrown]
  ELSE Skipped(st, FALSE)

\* mutant: the hash is compared with the file name, which never matches
ExistingImageByPath(h, hash) ==
  \E i \in 1..Len(h) : IsImage(h[i]) /\ h[i].content = FileNameOf(hash)

\* existingImage: clipboardHistory.find(item => item.type === 'image' &&
\*                                       item.content === imageHash)
ExistingImage(h, hash) ==
  \E i \in 1..Len(h) : IsImage(h[i]) /\ h[i].content = hash

\* The image check of one tick. bytes is the PNG of clipboard.readImage(),
\* NoImage when the clipboard offers no image format or the image is empty.
\* saveImageToFile writes, and so can throw, only when the file is not there.
ImageCheck(st, bytes, t, max, f) ==
  IF f = "readImage" THEN Skipped(st, TRUE)
  ELSE IF bytes # NoImage /\ ~ExistingImage(st.h, Md5(bytes))
  THEN IF f = "writeImage" /\ FileNameOf(Md5(bytes)) \notin st.dir
       THEN Skipped(st, TRUE)
       ELSE LET dir1 == saveImageToFile(st.dir, bytes)
                item == NewImageItem(Md5(bytes), FileNameOf(Md5(bytes)), t)
                lim == LimitAfterImage(Unshift(st.h, item), dir1, max)
                out == NotifyAndSave(lim.h, st.file, f)
            IN [h |-> out.h, dir |-> lim.dir, file |-> out.file, last |-> st.last,
                sent |-> st.sent \o out.sent, inserted |-> TRUE,
                thrown |-> out.thrown]
  ELSE Skipped(st, FALSE)

OpRec(op, id, text, image) == [op |-> op, id |-> id, text |-> text, image |-> image]

Remember(op, id, text, image) ==
  /\ lastOp' = OpRec(op, id, text, image)
  /\ preHistory' = clipboardHistory
  /\ preDir' = imagesDir
  /\ delivered' = FALSE

\* mutant: the try block ends after the text check
TickCatchesTextOnly(check) == check = "text"

\* try { text check; image check } catch (error) { log }: the checks whose
\* exceptions the callback catches
TickCatches(check) == check \in {"text", "image"}

\* One run of the setInterval callback under the condition f: the text check,
\* then the image check unless the text check threw (the catch ends the run).
\* The second Date.now() of the tick is the first one or a later instant.
\* An exception that escaped the callback would end the watcher.
TickBody(d, f) ==
  LET t == now + 2
      st0 == [h |-> clipboardHistory, dir |-> imagesDir, file |-> historyFile,
              last |-> lastClipboardContent, sent |-> <<>>]
      st1 == TextCheck(st0, osText, t, maxHistoryItems, f)
      st2 == IF st1.thrown THEN [st1 EXCEPT !.inserted = FALSE]
             ELSE ImageCheck(st1, osImage, t + d, maxHistoryItems, f)
      thrownIn == IF st1.thrown THEN "text" ELSE IF st2.thrown THEN "image" ELSE "none"
      failed == \/ thrownIn # "none"
                \/ f = "save" /\ (st1.inserted \/ st2.inserted)
  IN /\ clipboardMonitoringInterval = "armed"
     /\ now < horizon
     /\ now' = IF st1.inserted \/ st2.inserted THEN t ELSE now
     /\ clipboardHistory' = st2.h
     /\ imagesDir' = st2.dir
     /\ historyFile' = st2.file
     /\ lastClipboardContent' = st2.last
     /\ clipboardMonitoringInterval' =
          IF thrownIn # "none" /\ ~TickCatches(thrownIn) THEN "cleared" ELSE "armed"
     /\ effects' = Effects(IF failed THEN f ELSE NoFault,
                           IF st1.thrown THEN {"text"} ELSE {"text", "image"},
                           st2.sent, "none", FALSE)
     /\ tickFailed' = (tickFailed \/ failed)
     /\ Remember("tick", 0, st1.inserted, st2.inserted)
     /\ UNCHANGED <<variant, maxHistoryItems, osText, osImage, horizon,
                    isQuitting, exited, storeClipboardHistory>>

\* src/main/index.ts startClipboardMonitoring
Tick == variant = "index" /\ \E d \in {0, 1} : TickBody(d, NoFault)

\* clipboardManager.ts startClipboardMonitoring
MonitorTick == variant = "manager" /\ \E d \in {0, 1} : TickBody(d, NoFault)

\* the same callbacks while a call of the tick fails
TickFault == variant = "index" /\ \E d \in {0, 1}, f \in TickFaults : TickBody(d, f)
MonitorTickFault ==
  variant = "manager" /\ \E d \in {0, 1}, f \in TickFaults : TickBody(d, f)

(* ------------------------- IPC handlers -------------------------------- *)
IdsOf(h) == {h[i].id : i \in 1..Len(h)}
\* the ids of the list, and 0: an id that no entry has (ids are timestamps),
\* for a request that names an entry already gone
RequestIds(h) == IdsOf(h) \cup {0}

\* the operations outside the watcher run while the process lives; what they
\* leave alone
HandlerFrame ==
  /\ ~exited
  /\ UNCHANGED <<variant, lastClipboardContent, maxHistoryItems, osText, osImage,
                 now, horizon, clipboardMonitoringInterval, tickFailed,
                 isQuitting, exited, storeClipboardHistory>>

\* a handler that changed the list to h under the condition f: notify, save
Mutated(h, f) ==
  LET out == NotifyAndSave(h, historyFile, f) IN
  /\ clipboardHistory' = out.h
  /\ historyFile' = out.file
  /\ effects' = Effects(IF out.thrown \/ f = "save" THEN f ELSE NoFault, {},
                        out.sent, "none", FALSE)

\* ipcMain.handle('delete-clipboard-item') under the condition f
DeleteBody(id, f) ==
  /\ IF FindIndexById(clipboardHistory, id) # 0
     THEN Mutated(DeleteItem(clipboardHistory, id), f)
     ELSE /\ UNCHANGED <<clipboardHistory, historyFile>>
          /\ effects' = NoEffects
  /\ Remember("delete", id, FALSE, FALSE)
  /\ UNCHANGED imagesDir
  /\ HandlerFrame

\* ipcMain.handle('toggle-pinned') under the condition f
ToggleBody(id, f) ==
  /\ IF FindIndexById(clipboardHistory, id) # 0
     THEN Mutated(TogglePinnedList(clipboardHistory, id), f)
     ELSE /\ UNCHANGED <<clipboardHistory, historyFile>>
          /\ effects' = NoEffects
  /\ Remember("toggle", id, FALSE, FALSE)
  /\ UNCHANGED imagesDir
  /\ HandlerFrame

\* ipcMain.handle('clear-clipboard-history') under the condition f
ClearBody(f) ==
  /\ Mutated(ClearKeepPinned(clipboardHistory), f)
  /\ Remember("clear", 0, FALSE, FALSE)
  /\ UNCHANGED imagesDir
  /\ HandlerFrame

DeleteClipboardItem == \E id \in RequestIds(clipboardHistory) : DeleteBody(id, NoFault)

TogglePinned == \E id \in RequestIds(clipboardHistory) : ToggleBody(id, NoFault)

ClearClipboardHistory == ClearBody(NoFault)

\* the same handlers when the send or the save may fail
DeleteClipboardItemFault ==
  \E id \in IdsOf(clipboardHistory), f \in {NoFault} \cup HandlerFaults :
    DeleteBody(id, f)

TogglePinnedFault ==
  \E id \in IdsOf(clipboardHistory), f \in {NoFault} \cup HandlerFaults :
    ToggleBody(id, f)

ClearClipboardHistoryFault == \E f \in {NoFault} \cup HandlerFaults : ClearBody(f)

\* ipcMain.handle('load-clipboard-history') of ipcManager.ts: the list is the
\* return value of the handler, no 'clipboard-updated' is sent
LoadClipboardHistoryIpc ==
  /\ variant = "manager"
  /\ clipboardHistory' = loadClipboardHistory(clipboardHistory, historyFile)
  /\ effects' = NoEffects
  /\ Remember("load", 0, FALSE, FALSE)
  /\ UNCHANGED <<historyFile, imagesDir>>
  /\ HandlerFrame

\* showWindow of index.ts: the history is loaded only while the list is empty
ShowWindow ==
  /\ variant = "index"
  /\ clipboardHistory' = IF Len(clipboardHistory) = 0
                         THEN loadClipboardHistory(clipboardHistory, historyFile)
                         ELSE clipboardHistory
  /\ effects' = NoEffects
  /\ Remember("show", 0, FALSE, FALSE)
  /\ UNCHANGED <<historyFile, imagesDir>>
  /\ HandlerFrame

\* ipcMain.on('settings-updated') of index.ts: settings = loadSettings()
SettingsUpdated ==
  /\ variant = "index"
  /\ \E m \in MaxChoices : maxHistoryItems' = m
  /\ effects' = NoEffects
  /\ Remember("settings", 0, FALSE, FALSE)
  /\ UNCHANGED <<variant, clipboardHistory, lastClipboardContent, historyFile,
                 imagesDir, osText, osImage, now, horizon,
                 clipboardMonitoringInterval, tickFailed,
                 isQuitting, exited, storeClipboardHistory>>

\* setInterval(cleanupUnusedImages, 60 * 60 * 1000): the handle that
\* setInterval returns is not kept, so no code can clear this timer; it is
\* armed for as long as the process lives
cleanupInterval == IF exited THEN "gone" ELSE "armed"

\* the hourly run of cleanupUnusedImages
CleanupUnusedImages ==
  /\ cleanupInterval = "armed"
  /\ imagesDir' = cleanupUnusedImages(clipboardHistory, historyFile, imagesDir)
  /\ effects' = NoEffects
  /\ Remember("cleanup", 0, FALSE, FALSE)
  /\ UNCHANGED <<clipboardHistory, historyFile>>
  /\ HandlerFrame

(* ----------------------------- shutdown -------------------------------- *)
\* app.on('before-quit'): the flag is set and the poll timer is cleared; the
\* process lives on until Electron has closed the windows
BeforeQuit ==
  /\ ~exited
  /\ isQuitting' = TRUE
  /\ clipboardMonitoringInterval' = "cleared"
  /\ effects' = NoEffects
  /\ Remember("before-quit", 0, FALSE, FALSE)
  /\ UNCHANGED <<variant, clipboardHistory, lastClipboardContent, maxHistoryItems,
                 historyFile, imagesDir, osText, osImage, now, horizon,
                 tickFailed, exited, storeClipboardHistory>>

\* exitApplication: the flag, saveClipboardHistory(), clearInterval of the poll
\* timer and app.exit(0); index.ts also empties the in-memory list
ExitApplication ==
  /\ ~exited
  /\ isQuitting' = TRUE
  /\ historyFile' = saveClipboardHistory(clipboardHistory)
  /\ clipboardHistory' = IF variant = "index" THEN <<>>
                         ELSE CoerceAll(clipboardHistory)
  /\ clipboardMonitoringInterval' = "cleared"
  /\ exited' = TRUE
  /\ effects' = NoEffects
  /\ Remember("exit", 0, FALSE, FALSE)
  /\ UNCHANGED <<variant, lastClipboardContent, maxHistoryItems, imagesDir,
                 osText, osImage, now, horizon, tickFailed,
                 storeClipboardHistory>>

(* ------------------------------ paste ---------------------------------- *)
\* the bytes of the image stored under a file name
BytesOf(fileName) == CHOOSE b \in Images : FileNameOf(Md5(b)) = fileName

\* mutant: the image is taken to be there whether or not the file exists
loadImageAlways(dir, fileName) == TRUE

\* loadImageFromFile: the image, or null (FALSE here) when the file is missing
loadImageFromFile(dir, fileName) == fileName \in dir

\* runAppleScript: stdout on success, null after any error; the permission
\* error also opens a dialog
runAppleScript(f) == IF f \in PasteFaults THEN "null" ELSE "stdout"

\* the value set-clipboard-content returns once the keystroke was attempted:
\* the result of runAppleScript is assigned and never read
PasteReturn(scriptResult) == "success"

\* an item the renderer still shows from an earlier notification
StaleItems ==
  { [id |-> 4, type |-> "image", content |-> "h1", timestamp |-> 4,
     pinned |-> "false", imagePath |-> "h1.png"] }

\* ipcMain.handle('set-clipboard-content'): the item comes from the renderer
SetClipboardContent ==
  \E item \in {clipboardHistory[i] : i \in 1..Len(clipboardHistory)} \cup StaleItems,
     f \in {NoFault} \cup PasteFaults :
    /\ IF IsImage(item) /\ ~loadImageFromFile(imagesDir, item.imagePath)
       THEN /\ effects' = Effects(NoFault, {}, <<>>, "error", FALSE)
            /\ UNCHANGED <<osText, osImage>>
       ELSE /\ osText' = IF IsImage(item) THEN NoText ELSE item.content
            /\ osImage' = IF IsImage(item) THEN BytesOf(item.imagePath) ELSE NoImage
            /\ effects' = Effects(f, {}, <<>>, PasteReturn(runAppleScript(f)), TRUE)
    /\ Remember("paste", item.id, ~IsImage(item), IsImage(item))
    /\ UNCHANGED <<variant, clipboardHistory, lastClipboardContent,
                   maxHistoryItems, historyFile, imagesDir, now, horizon,
                   clipboardMonitoringInterval, tickFailed,
                 isQuitting, exited, storeClipboardHistory>>

(* ------------------------- the renderer store -------------------------- *)
\* what the renderer steps leave alone: the whole main process
RendererFrame ==
  UNCHANGED <<variant, clipboardHistory, lastClipboardContent, maxHistoryItems,
              historyFile, imagesDir, osText, osImage, now, horizon, lastOp,
              preHistory, preDir, clipboardMonitoringInterval, effects,
              tickFailed, isQuitting, exited>>

\* setClipboardHistory of the store: pinned coerced, pinned entries first,
\* each group sorted by timestamp descending
setClipboardHistory(history) ==
  LET coerced == CoerceAll(history) IN
  SortDesc(PinnedItems(coerced)) \o SortDesc(UnpinnedItems(coerced))

\* state.clipboardHistory.filter(item => item.id !== id)
FilterOutId(list, id) == SelectSeq(list, LAMBDA e : e.id # id)

\* the list of the store once it has handled the notifications of the
\* operation that ran last, in the order they were sent
AfterNotifications ==
  IF effects.sent = <<>> THEN storeClipboardHistory
  ELSE setClipboardHistory(effects.sent[Len(effects.sent)])

\* the operation that ran last sent or returned something to the renderer that
\* the renderer has not handled yet
Pending ==
  /\ ~delivered
  /\ effects.sent # <<>> \/ lastOp.op \in {"delete", "clear"}

\* App's useEffect at mount: getClipboardHistory(), then setClipboardHistory
FetchClipboardHistory ==
  /\ ~exited
  /\ storeClipboardHistory' = setClipboardHistory(clipboardHistory)
  /\ UNCHANGED delivered
  /\ RendererFrame

\* onClipboardUpdated: the notifications of a tick or of a toggle-pinned
OnClipboardUpdated ==
  /\ ~delivered
  /\ lastOp.op \in {"tick", "toggle"}
  /\ effects.sent # <<>>
  /\ storeClipboardHistory' = AfterNotifications
  /\ delivered' = TRUE
  /\ RendererFrame

\* deleteItem of the store once the invoke has resolved: the notification of
\* the handler was handled first, then the entries with the id are filtered out
DeleteItemResolved ==
  /\ ~delivered
  /\ lastOp.op = "delete"
  /\ storeClipboardHistory' = FilterOutId(AfterNotifications, lastOp.id)
  /\ delivered' = TRUE
  /\ RendererFrame

\* clearHistory of the store once the invoke has resolved: the list is set to
\* the list the handler returned
ClearHistoryResolved ==
  /\ ~delivered
  /\ lastOp.op = "clear"
  /\ storeClipboardHistory' = clipboardHistory
  /\ delivered' = TRUE
  /\ RendererFrame

\* deleteItem and togglePinned of the store: the renderer invokes the handler
\* for an entry that it shows
StoreDeleteItem ==
  \E id \in IdsOf(storeClipboardHistory) : DeleteBody(id, NoFault)

StoreTogglePinned ==
  \E id \in IdsOf(storeClipboardHistory) : ToggleBody(id, NoFault)

(* ------------------------- the environment ----------------------------- *)
\* the user copies a text, an image, or content offering both
Copy ==
  /\ \E t \in Texts \cup {NoText}, b \in Images \cup {NoImage} :
       /\ (t # NoText \/ b # NoImage)
       /\ osText' = t
       /\ osImage' = b
  /\ effects' = NoEffects
  /\ Remember("copy", 0, FALSE, FALSE)
  /\ UNCHANGED <<variant, clipboardHistory, lastClipboardContent, maxHistoryItems,
                 historyFile, imagesDir, now, horizon,
                 clipboardMonitoringInterval, tickFailed,
                 isQuitting, exited, storeClipboardHistory>>

\* the user copies the text "A", the image, or content offering both
CopyOne ==
  /\ \E t \in {"A", NoText}, b \in Images \cup {NoImage} :
       /\ (t # NoText \/ b # NoImage)
       /\ osText' = t
       /\ osImage' = b
  /\ effects' = NoEffects
  /\ Remember("copy", 0, FALSE, FALSE)
  /\ UNCHANGED <<variant, clipboardHistory, lastClipboardContent, maxHistoryItems,
                 historyFile, imagesDir, now, horizon,
                 clipboardMonitoringInterval, tickFailed,
                 isQuitting, exited, storeClipboardHistory>>

\* the user copies one of two images, with or without the text "A"
CopyImage ==
  /\ \E t \in {"A", NoText}, b \in TwoImages :
       /\ osText' = t
       /\ osImage' = b
  /\ effects' = NoEffects
  /\ Remember("copy", 0, FALSE, FALSE)
  /\ UNCHANGED <<variant, clipboardHistory, lastClipboardContent, maxHistoryItems,
                 historyFile, imagesDir, now, horizon,
                 clipboardMonitoringInterval, tickFailed,
                 isQuitting, exited, storeClipboardHistory>>

\* the user copies one of the scenario texts
CopyText ==
  /\ \E t \in ScenarioTexts : osText' = t
  /\ osImage' = NoImage
  /\ effects' = NoEffects
  /\ Remember("copy", 0, FALSE, FALSE)
  /\ UNCHANGED <<variant, clipboardHistory, lastClipboardContent, maxHistoryItems,
                 historyFile, imagesDir, now, horizon,
                 clipboardMonitoringInterval, tickFailed,
                 isQuitting, exited, storeClipboardHistory>>

(* ------------------------------ Init ----------------------------------- *)
\* what an earlier run left on disk: one image entry and its file
EarlierItems ==
  << [id |-> 4, type |-> "image", content |-> "h1", timestamp |-> 4,
      pinned |-> "false", imagePath |-> "h1.png"] >>

\* The state after start-up. initClipboardManager loads the history, index.ts
\* leaves the list empty; both run cleanupUnusedImages once;
\* startClipboardMonitoring reads the clipboard text.
InitProgram ==
  /\ variant \in {"index", "manager"}
  /\ clipboardHistory = IF variant = "manager"
                        THEN loadClipboardHistory(<<>>, historyFile)
                        ELSE <<>>
  /\ osText = NoText
  /\ osImage = NoImage
  /\ lastClipboardContent = osText
  /\ now = 4
  /\ lastOp = OpRec("init", 0, FALSE, FALSE)
  /\ preHistory = <<>>
  /\ preDir = {}
  /\ clipboardMonitoringInterval = "armed"
  /\ effects = NoEffects
  /\ tickFailed = FALSE
  /\ isQuitting = FALSE
  /\ exited = FALSE
  /\ storeClipboardHistory = <<>>
  /\ delivered = FALSE

Init ==
  /\ maxHistoryItems \in MaxChoices
  /\ \E disk \in {"fresh", "earlier"} :
       /\ historyFile = IF disk = "fresh" THEN NoFile ELSE FileOf(EarlierItems)
       /\ imagesDir = IF disk = "fresh" THEN {} ELSE {"h1.png"}
  /\ horizon = 4 + 2 * MaxTicks
  /\ InitProgram

Next ==
  \/ Tick
  \/ MonitorTick
  \/ DeleteClipboardItem
  \/ TogglePinned
  \/ ClearClipboardHistory
  \/ LoadClipboardHistoryIpc
  \/ ShowWindow
  \/ SettingsUpdated
  \/ CleanupUnusedImages
  \/ Copy

Spec == Init /\ [][Next]_vars

\* A first run on a fresh disk with maxHistoryItems = 2, the user copying
\* texts only.
InitText ==
  /\ maxHistoryItems = 2
  /\ historyFile = NoFile
  /\ imagesDir = {}
  /\ horizon = 4 + 2 * ScenarioTicks
  /\ InitProgram

NextText ==
  \/ Tick
  \/ MonitorTick
  \/ DeleteClipboardItem
  \/ TogglePinned
  \/ ClearClipboardHistory
  \/ CopyText

SpecText == InitText /\ [][NextText]_vars

\* The program while calls fail: the ticks and the mutating handlers under
\* every failure condition, and the two loads.
InitFault ==
  /\ maxHistoryItems = 2
  /\ \E disk \in {"fresh", "earlier"} :
       /\ historyFile = IF disk = "fresh" THEN NoFile ELSE FileOf(EarlierItems)
       /\ imagesDir = IF disk = "fresh" THEN {} ELSE {"h1.png"}
  /\ horizon = 4 + 2 * FaultTicks
  /\ InitProgram

NextFault ==
  \/ Tick
  \/ MonitorTick
  \/ TickFault
  \/ MonitorTickFault
  \/ DeleteClipboardItemFault
  \/ TogglePinnedFault
  \/ ClearClipboardHistoryFault
  \/ LoadClipboardHistoryIpc
  \/ ShowWindow
  \/ CopyOne

SpecFault == InitFault /\ [][NextFault]_vars

\* The program while the renderer asks for pastes.
InitPaste ==
  /\ maxHistoryItems = 2
  /\ \E disk \in {"fresh", "earlier"} :
       /\ historyFile = IF disk = "fresh" THEN NoFile ELSE FileOf(EarlierItems)
       /\ imagesDir = IF disk = "fresh" THEN {} ELSE {"h1.png"}
  /\ horizon = 4 + 2 * PasteTicks
  /\ InitProgram

NextPaste ==
  \/ Tick
  \/ MonitorTick
  \/ SetClipboardContent
  \/ DeleteClipboardItem
  \/ ShowWindow
  \/ Copy

SpecPaste == InitPaste /\ [][NextPaste]_vars

\* The program until it shuts down.
InitQuit ==
  /\ maxHistoryItems = 2
  /\ \E disk \in {"fresh", "earlier"} :
       /\ historyFile = IF disk = "fresh" THEN NoFile ELSE FileOf(EarlierItems)
       /\ imagesDir = IF disk = "fresh" THEN {} ELSE {"h1.png"}
  /\ horizon = 4 + 2 * QuitTicks
  /\ InitProgram

NextQuit ==
  \/ Tick
  \/ MonitorTick
  \/ DeleteClipboardItem
  \/ TogglePinned
  \/ ClearClipboardHistory
  \/ ShowWindow
  \/ CleanupUnusedImages
  \/ BeforeQuit
  \/ ExitApplication
  \/ CopyOne

SpecQuit == InitQuit /\ [][NextQuit]_vars

\* The program while the user copies two different images.
InitImages ==
  /\ maxHistoryItems \in {1, 2}
  /\ \E disk \in {"fresh", "earlier"} :
       /\ historyFile = IF disk = "fresh" THEN NoFile ELSE FileOf(EarlierItems)
       /\ imagesDir = IF disk = "fresh" THEN {} ELSE {"h1.png"}
  /\ horizon = 4 + 2 * ImageTicks
  /\ InitProgram

NextImages ==
  \/ Tick
  \/ MonitorTick
  \/ DeleteClipboardItem
  \/ TogglePinned
  \/ ClearClipboardHistory
  \/ LoadClipboardHistoryIpc
  \/ ShowWindow
  \/ CleanupUnusedImages
  \/ CopyImage

SpecImages == InitImages /\ [][NextImages]_vars

\* The main process and the renderer store. IPC messages are not lost: the
\* renderer handles what an operation sent before the next operation runs.
InitRenderer ==
  /\ maxHistoryItems = 2
  /\ \E disk \in {"fresh", "earlier"} :
       /\ historyFile = IF disk = "fresh" THEN NoFile ELSE FileOf(EarlierItems)
       /\ imagesDir = IF disk = "fresh" THEN {} ELSE {"h1.png"}
  /\ horizon = 4 + 2 * RendererTicks
  /\ InitProgram

NextRenderer ==
  \/ ~Pending /\ Tick
  \/ ~Pending /\ MonitorTick
  \/ ~Pending /\ StoreDeleteItem
  \/ ~Pending /\ StoreTogglePinned
  \/ ~Pending /\ ClearClipboardHistory
  \/ ~Pending /\ ShowWindow
  \/ ~Pending /\ CopyOne
  \/ FetchClipboardHistory
  \/ OnClipboardUpdated
  \/ DeleteItemResolved
  \/ ClearHistoryResolved

SpecRenderer == InitRenderer /\ [][NextRenderer]_vars

\* A history file written by an older build or edited by hand: one entry
\* without a pinned field, one whose pinned is a value other than a boolean.
LegacyItems ==
  << [id |-> 2, type |-> "text", content |-> "A", timestamp |-> 2,
      pinned |-> "truthy", imagePath |-> NoPath],
     [id |-> 4, type |-> "image", content |-> "h1", timestamp |-> 4,
      pinned |-> "undefined", imagePath |-> "h1.png"] >>

InitLegacy ==
  /\ maxHistoryItems \in MaxChoices
  /\ historyFile = FileOf(LegacyItems)
  /\ imagesDir = {"h1.png"}
  /\ horizon = 4 + 2 * LegacyTicks
  /\ InitProgram

SpecLegacy == InitLegacy /\ [][Next]_vars

(* ======================= the claims ==================================== *)
\* the entries of h that are no longer in g
Gone(h, g) == {i \in 1..Len(h) : ~\E j \in 1..Len(g) : g[j] = h[i]}
AllPinned(h) == \A i \in 1..Len(h) : StrictTrue(h[i].pinned)
\* pinned entries first, each of the two groups by timestamp descending
Canonical(h) ==
  \A i, j \in 1..Len(h) :
    i < j =>
      /\ (StrictTrue(h[j].pinned) => StrictTrue(h[i].pinned))
      /\ (h[i].pinned = h[j].pinned => h[i].timestamp >= h[j].timestamp)
\* content and pinned flag of every entry, in list order
Brief(h) == [i \in 1..Len(h) |-> <<h[i].content, h[i].pinned>>]
InsertingTick == lastOp.op = "tick" /\ (lastOp.text \/ lastOp.image)

\* C1: in every reachable state the History list has every pinned entry before
\* every unpinned entry, and each of the two groups in descending timestamp
\* order.
C1_PinnedFirstOrder == Canonical(clipboardHistory)

\* C2: with maxHistoryItems = 2, after the ticks inserted "A" and "B", "A" was
\* pinned and a tick inserts "C", the list is exactly [A (pinned), C].
C2_Scenario ==
  ( /\ lastOp.op = "tick" /\ lastOp.text /\ lastClipboardContent = "C"
    /\ maxHistoryItems = 2
    /\ Brief(preHistory) = << <<"A", "true">>, <<"B", "false">> >>
    /\ preHistory[1].timestamp < preHistory[2].timestamp )
  => Brief(clipboardHistory) = << <<"A", "true">>, <<"C", "false">> >>

\* C3: a watcher tick (insertion and eviction) and clear-history never remove
\* an entry whose pinned flag is true.
C3_PinnedSurvive ==
  lastOp.op \in {"tick", "clear"} =>
    \A i \in Gone(preHistory, clipboardHistory) : ~StrictTrue(preHistory[i].pinned)

\* C3 witness: a tick evicted an entry of a list whose tail entry was pinned,
\* and the pinned entry is still in the list.
C3_Witness ==
  /\ lastOp.op = "tick"
  /\ Gone(preHistory, clipboardHistory) # {}
  /\ Len(preHistory) > 0
  /\ StrictTrue(preHistory[Len(preHistory)].pinned)
  /\ Len(preHistory) \notin Gone(preHistory, clipboardHistory)

\* C4 as claimed: after an insertion, unless maxHistoryItems is unlimited, the
\* count is at most maxHistoryItems or every remaining entry is pinned.
C4_CountBounded ==
  InsertingTick =>
    \/ maxHistoryItems >= Unlimited
    \/ Len(clipboardHistory) <= maxHistoryItems
    \/ AllPinned(clipboardHistory)

\* C4 amended: after an insertion, unless maxHistoryItems is unlimited, the
\* count is at most maxHistoryItems, or every remaining entry is pinned, or the
\* count is no larger than it was before the tick (each insertion evicts at most
\* one entry, so a list that was already over the limit stays over it).
C4_CountBoundedOrNotGrown ==
  InsertingTick =>
    \/ maxHistoryItems >= Unlimited
    \/ Len(clipboardHistory) <= maxHistoryItems
    \/ AllPinned(clipboardHistory)
    \/ Len(clipboardHistory) <= Len(preHistory)

\* C4 witness: an insertion into a list that was over the limit.
C4_Witness ==
  /\ InsertingTick
  /\ maxHistoryItems < Unlimited
  /\ Len(preHistory) > maxHistoryItems
  /\ Len(clipboardHistory) = Len(preHistory)
  /\ ~AllPinned(clipboardHistory)

\* C5: History holds at most one Image entry per content hash, and a tick that
\* reads an image whose hash is the content of an Image entry (one that the
\* tick's text check did not evict) adds no entry and writes no file.
C5_OneEntryPerHash ==
  /\ \A i, j \in 1..Len(clipboardHistory) :
       ( /\ IsImage(clipboardHistory[i]) /\ IsImage(clipboardHistory[j])
         /\ clipboardHistory[i].content = clipboardHistory[j].content ) => i = j
  /\ ( /\ lastOp.op = "tick"
       /\ osImage # NoImage
       /\ \E i \in 1..Len(preHistory) :
            /\ IsImage(preHistory[i]) /\ preHistory[i].content = Md5(osImage)
            /\ i \notin Gone(preHistory, clipboardHistory) )
     => ( /\ ~lastOp.image
          /\ imagesDir \subseteq preDir
          /\ Len(clipboardHistory) <= Len(preHistory) + 1 )

\* C5 witness: a tick read the image of an entry already in History.
C5_Witness ==
  /\ lastOp.op = "tick"
  /\ osImage # NoImage
  /\ ExistingImage(preHistory, Md5(osImage))
  /\ ExistingImage(clipboardHistory, Md5(osImage))
  /\ ~lastOp.image
  /\ FileNameOf(Md5(osImage)) \in imagesDir

\* the entries of h other than those with the given id, in list order
Others(h, id) == SelectSeq(h, LAMBDA e : e.id # id)
PinnedOf(h, id) == {h[i].pinned : i \in {j \in 1..Len(h) : h[j].id = id}}

\* C6: for every id of the list, toggle-pinned applied twice restores the
\* pinned value of that entry and leaves the other entries in the relative
\* order they had before the first toggle.
C6_DoubleToggle ==
  \A id \in IdsOf(clipboardHistory) :
    LET twice == TogglePinnedList(TogglePinnedList(clipboardHistory, id), id) IN
    /\ PinnedOf(twice, id) = PinnedOf(clipboardHistory, id)
    /\ Others(twice, id) = Others(clipboardHistory, id)

\* C7: after clear-history, a load from the file that the clear saved yields
\* exactly the entries that were pinned before the clear, unchanged and in the
\* order they had.
C7_ClearThenLoad ==
  lastOp.op = "clear" =>
    /\ historyFile.exists
    /\ loadClipboardHistory(clipboardHistory, historyFile) = PinnedItems(preHistory)

\* C7 witness: a clear that kept two pinned entries and dropped an unpinned one.
C7_Witness ==
  /\ lastOp.op = "clear"
  /\ Len(PinnedItems(preHistory)) >= 2
  /\ Len(UnpinnedItems(preHistory)) >= 1
  /\ Len(clipboardHistory) = Len(PinnedItems(preHistory))

\* C8: save followed by load yields the in-memory list again: the same entries
\* in the same order, every field unchanged.
C8_SaveLoadRoundTrip ==
  loadClipboardHistory(clipboardHistory, saveClipboardHistory(clipboardHistory))
    = clipboardHistory

\* C9: delete by id of an Image entry that alone references its image file
\* removes the file within the delete; a file that another entry references
\* is kept.
C9_DeleteRemovesFile ==
  (lastOp.op = "delete" /\ FindIndexById(preHistory, lastOp.id) # 0) =>
    LET idx == FindIndexById(preHistory, lastOp.id)
        e == preHistory[idx]
    IN (IsImage(e) /\ HasPath(e) /\ e.imagePath \in preDir) =>
         IF OtherReferences(preHistory, idx)
         THEN e.imagePath \in imagesDir
         ELSE e.imagePath \notin imagesDir

\* the file f is referenced by the current History: the in-memory list when it
\* is not empty, else the persisted file
Referenced(f) ==
  LET current == IF Len(clipboardHistory) > 0 THEN clipboardHistory
                 ELSE historyFile.items
  IN \E i \in 1..Len(current) : IsImage(current[i]) /\ current[i].imagePath = f

\* C10: after a run of cleanupUnusedImages a file is in the image directory
\* if and only if it was there before and the current History references it.
C10_CleanupExact ==
  lastOp.op = "cleanup" => imagesDir = {f \in preDir : Referenced(f)}

\* C10 witness: a cleanup removed the file of an image whose only entry had
\* been removed from a list that still holds entries.
C10_Witness ==
  /\ lastOp.op = "cleanup"
  /\ "h1.png" \in preDir
  /\ "h1.png" \notin imagesDir
  /\ Len(clipboardHistory) > 0

\* the entries of h, as a set
EntriesOf(h) == {h[i] : i \in 1..Len(h)}

\* C11: a failure met in a tick stays in that tick: once some tick has failed
\* the poll timer is still armed (the guard under which the callback runs), in
\* the state the failed tick leaves and in every later state.
C11_FailureConfined == tickFailed => clipboardMonitoringInterval = "armed"

\* C11 witness: after a tick that failed, a later tick ran without failure and
\* inserted an entry.
C11_Witness ==
  /\ tickFailed
  /\ lastOp.op = "tick"
  /\ effects.fault = NoFault
  /\ lastOp.text \/ lastOp.image
  /\ Len(clipboardHistory) > Len(preHistory)

\* the entries of the list that the last operation added, of the given type
Added(type) ==
  {e \in EntriesOf(clipboardHistory) : e.type = type /\ e \notin EntriesOf(preHistory)}

\* C12: every tick executes both the text check and the image check, whatever
\* the outcome of the other check, and adds at most one Text entry and at most
\* one Image entry.
C12_BothChecksRun ==
  lastOp.op = "tick" =>
    /\ effects.checks = {"text", "image"}
    /\ Cardinality(Added("text")) <= 1
    /\ Cardinality(Added("image")) <= 1

\* C13: when the keystroke simulation fails during set-clipboard-content (the
\* permission-denied case included), the result the handler returns is not the
\* success result, and History is unchanged.
C13_PasteFailureReported ==
  (lastOp.op = "paste" /\ effects.fault \in PasteFaults) =>
    /\ effects.result # "success"
    /\ clipboardHistory = preHistory

\* the renderer asks for the paste of an Image item whose file is not in the
\* image directory (read in the state before the step)
MissingImageRequest ==
  /\ lastOp'.op = "paste"
  /\ lastOp'.image
  /\ \E item \in EntriesOf(clipboardHistory) \cup StaleItems :
       item.id = lastOp'.id /\ IsImage(item) /\ item.imagePath \notin imagesDir

\* C14: set-clipboard-content for an Image item whose file is missing returns
\* the error result, runs no keystroke, leaves History, the history file and
\* the OS clipboard as they were, and leaves the poll timer armed.
C14_MissingImageFile ==
  [][ MissingImageRequest =>
        /\ effects'.result = "error"
        /\ ~effects'.keystroke
        /\ UNCHANGED <<clipboardHistory, historyFile, imagesDir, osText, osImage>>
        /\ clipboardMonitoringInterval' = "armed" ]_vars

\* C14 witness: a paste of an Image item returned the error result while
\* History was not empty.
C14_Witness ==
  /\ lastOp.op = "paste"
  /\ lastOp.image
  /\ effects.result = "error"
  /\ ~effects.keystroke
  /\ Len(clipboardHistory) > 0

\* C15: the in-memory History stays authoritative after a failed save: a load
\* from disk keeps every entry (by id) that was in memory and not in the file,
\* and after an operation that saved without failure the file equals the list.
C15_MemoryAuthoritative ==
  /\ lastOp.op \in {"load", "show"} =>
       \A id \in IdsOf(preHistory) :
         id \notin IdsOf(historyFile.items) => id \in IdsOf(clipboardHistory)
  /\ (effects.sent # <<>> /\ effects.fault = NoFault) =>
       historyFile = FileOf(clipboardHistory)

\* loadClipboardHistory ran: the handler of ipcManager.ts always calls it,
\* showWindow calls it while the list is empty
LoadRan == lastOp.op = "load" \/ (lastOp.op = "show" /\ preHistory = <<>>)

\* C16 as claimed: a load with no history file leaves an empty History,
\* whatever the list held, and raises no error.
C16_LoadMissingFileEmpties ==
  (LoadRan /\ ~historyFile.exists) =>
    /\ Len(clipboardHistory) = 0
    /\ effects.fault = NoFault

\* C16 amended: a load with no history file leaves History as it was (empty
\* when nothing was inserted before) and raises no error.
C16_LoadMissingFileKeeps ==
  (LoadRan /\ ~historyFile.exists) =>
    /\ clipboardHistory = preHistory
    /\ effects.fault = NoFault

\* C16 witness: a load with no history file while History held an entry.
C16_Witness ==
  /\ lastOp.op = "load"
  /\ ~historyFile.exists
  /\ Len(preHistory) > 0
  /\ clipboardHistory = preHistory

\* C17: the pinned field of every entry of History is exactly true or exactly
\* false, also for entries loaded from a file in which pinned was missing or
\* not a boolean.
C17_PinnedIsBoolean ==
  \A i \in 1..Len(clipboardHistory) : clipboardHistory[i].pinned \in {"true", "false"}

\* C17 witness: History holds the two entries of the legacy file.
C17_Witness ==
  /\ \E i \in 1..Len(clipboardHistory) : clipboardHistory[i].id = LegacyItems[1].id
  /\ \E i \in 1..Len(clipboardHistory) : clipboardHistory[i].id = LegacyItems[2].id

\* C18: every operation that changed History (tick, delete, toggle-pinned,
\* clear, load from disk) sent a clipboard-updated notification, and the last
\* payload it sent is the list as the operation left it.
C18_EveryChangeNotified ==
  ( /\ lastOp.op \in {"tick", "delete", "toggle", "clear", "load", "show"}
    /\ clipboardHistory # preHistory )
  => /\ effects.sent # <<>>
     /\ effects.sent[Len(effects.sent)] = clipboardHistory

\* the last operation was a mutating one: a tick that inserted, a delete or a
\* toggle of an entry of the list, a clear
Mutating ==
  \/ InsertingTick
  \/ lastOp.op \in {"delete", "toggle"} /\ FindIndexById(preHistory, lastOp.id) # 0
  \/ lastOp.op = "clear"

\* C19: at the end of every mutating operation that met no failure the history
\* file holds the in-memory list, the same entries in the same order.
C19_WriteThrough ==
  (Mutating /\ effects.fault = NoFault) => historyFile = FileOf(clipboardHistory)

\* C19 witness: an operation without failure wrote a list holding an entry
\* that an earlier, failed save had left out of the file.
C19_Witness ==
  /\ Mutating
  /\ effects.fault = NoFault
  /\ historyFile = FileOf(clipboardHistory)
  /\ \E e \in EntriesOf(preHistory) :
       e \in EntriesOf(clipboardHistory) /\ e.id > 4 /\ lastOp.op # "tick"

\* C20: the entries of History have pairwise distinct ids.
C20_DistinctIds ==
  \A i, j \in 1..Len(clipboardHistory) :
    clipboardHistory[i].id = clipboardHistory[j].id => i = j

\* C21: an entry that an earlier run left in the history file leaves the file
\* only through a delete of its id, a clear while it is unpinned, or a tick
\* that evicts it from the over-full in-memory list while it is unpinned; no
\* other step (a tick before the history was loaded, the exit of the
\* application) drops it from the file.
C21_PersistedKept ==
  [][ \A id \in IdsOf(EarlierItems) \cap IdsOf(historyFile.items) :
        id \notin IdsOf(historyFile'.items) =>
          \/ lastOp'.op = "delete" /\ lastOp'.id = id
          \/ /\ lastOp'.op = "clear"
             /\ \E e \in EntriesOf(historyFile.items) :
                  e.id = id /\ ~StrictTrue(e.pinned)
          \/ /\ lastOp'.op = "tick"
             /\ maxHistoryItems < Unlimited
             /\ \E e \in EntriesOf(clipboardHistory) :
                  e.id = id /\ ~StrictTrue(e.pinned) ]_vars

\* the number of entries the last tick created, the entries of the list that
\* it created, and the entries of the list that were there before it
NewCount == (IF lastOp.text THEN 1 ELSE 0) + (IF lastOp.image THEN 1 ELSE 0)
AddedEntries == EntriesOf(clipboardHistory) \ EntriesOf(preHistory)
KeptEntries == EntriesOf(clipboardHistory) \cap EntriesOf(preHistory)

\* C22: a tick removes at most one entry per insertion (the list never gets
\* shorter), every entry it removes is unpinned and has the smallest timestamp
\* of all unpinned entries, and when the entry removed is one the tick itself
\* created, no older unpinned entry is left in the list.
C22_EvictsOldestUnpinned ==
  InsertingTick =>
    /\ Len(clipboardHistory) >= Len(preHistory)
    /\ \A i \in Gone(preHistory, clipboardHistory) :
         /\ ~StrictTrue(preHistory[i].pinned)
         /\ \A u \in EntriesOf(clipboardHistory) :
              ~StrictTrue(u.pinned) => preHistory[i].timestamp <= u.timestamp
    /\ Cardinality(AddedEntries) < NewCount =>
         \A u \in KeptEntries : StrictTrue(u.pinned)

\* C22 witness: an insertion into a list that was over the limit removed one
\* of several unpinned entries, and an older list entry is still there.
C22_Witness ==
  /\ InsertingTick
  /\ Len(preHistory) > maxHistoryItems
  /\ Cardinality(Gone(preHistory, clipboardHistory)) = 1
  /\ \E u \in KeptEntries : ~StrictTrue(u.pinned)

\* C23: the entry that a tick created is in the list when the tick ends, also
\* when every other entry is pinned and the count exceeds maxHistoryItems
\* (stated for ticks that created one entry, so that the entry is not removed
\* by the eviction of a second insertion).
C23_NewEntryStays ==
  (InsertingTick /\ NewCount = 1) => Cardinality(AddedEntries) = 1

\* C24: when a tick evicts an Image entry, whether the insertion was a text or
\* an image, the image file of that entry is gone from the image directory at
\* the end of the tick unless an entry of the list still references it, and a
\* file that an entry references is kept.
C24_EvictionRemovesFile ==
  lastOp.op = "tick" =>
    \A i \in Gone(preHistory, clipboardHistory) :
      (IsImage(preHistory[i]) /\ HasPath(preHistory[i])) =>
        IF \E e \in EntriesOf(clipboardHistory) :
             IsImage(e) /\ e.imagePath = preHistory[i].imagePath
        THEN preHistory[i].imagePath \in imagesDir
        ELSE preHistory[i].imagePath \notin imagesDir

\* the next tick, run on the list h with the clipboard as it is, creates an
\* entry
NextTickInserts(h) ==
  LET st0 == [h |-> h, dir |-> imagesDir, file |-> historyFile,
              last |-> lastClipboardContent, sent |-> <<>>]
      st1 == TextCheck(st0, osText, now + 2, maxHistoryItems, NoFault)
      st2 == ImageCheck(st1, osImage, now + 2, maxHistoryItems, NoFault)
  IN st1.inserted \/ st2.inserted

\* C25: once a tick has read the clipboard, a tick that finds the same content
\* creates no entry: not when it follows at once, and not after a delete of
\* any entry or a clear in between (the cases in which the Image entry of the
\* image on the clipboard was evicted, deleted or cleared).
C25_InsertOnlyOnChange ==
  lastOp.op = "tick" =>
    /\ ~NextTickInserts(clipboardHistory)
    /\ \A id \in IdsOf(clipboardHistory) :
         ~NextTickInserts(DeleteItem(clipboardHistory, id))
    /\ ~NextTickInserts(ClearKeepPinned(clipboardHistory))

\* C26: every Image entry of the in-memory History that has an imagePath has
\* its file in the image directory.
C26_ReferentialIntegrity ==
  \A e \in EntriesOf(clipboardHistory) :
    (IsImage(e) /\ HasPath(e)) => e.imagePath \in imagesDir

\* C26 witness: an eviction or a cleanup run removed an image file while the
\* list holds an Image entry, whose file is still there.
C26_Witness ==
  /\ lastOp.op \in {"tick", "cleanup"}
  /\ imagesDir # preDir
  /\ preDir \ imagesDir # {}
  /\ \E e \in EntriesOf(clipboardHistory) :
       IsImage(e) /\ HasPath(e) /\ e.imagePath \in imagesDir

\* C27: a mutating operation (a tick that inserted, a delete or a toggle of an
\* entry of the list, a clear) in which the send of clipboard-updated threw
\* has still written the list it left to the history file.
C27_SaveDespiteSendFailure ==
  (Mutating /\ effects.fault = "send") =>
    historyFile = FileOf(CoerceAll(clipboardHistory))

\* C28: set-clipboard-content for a Text entry of History leaves the list as
\* it was, and the tick that runs next, with the clipboard as the handler left
\* it, creates no entry.
C28_PasteAddsNothing ==
  (lastOp.op = "paste" /\ lastOp.text /\ lastOp.id \in IdsOf(clipboardHistory)) =>
    /\ clipboardHistory = preHistory
    /\ ~NextTickInserts(clipboardHistory)

\* C29: once shutdown has begun (exitApplication or before-quit has run), no
\* poll tick and no cleanup run takes place.
C29_NoTimerAfterShutdown ==
  [][ isQuitting => lastOp'.op \notin {"tick", "cleanup"} ]_vars

\* the two lists hold the same entries
SameEntries(a, b) == Len(a) = Len(b) /\ EntriesOf(a) = EntriesOf(b)

\* C30: when the renderer has handled the notifications of an operation, or
\* the result of its own deleteItem or clearHistory call, the list of the
\* store holds exactly the entries of the main-process History, pinned entries
\* first and each group by timestamp descending.
C30_StoreRefinesHistory ==
  [][ (~delivered /\ delivered') =>
        /\ SameEntries(storeClipboardHistory', clipboardHistory')
        /\ Canonical(storeClipboardHistory') ]_vars
====
